---- MODULE Spec2Model ----
(***************************************************************************)
(* Model of datasetplus.audio.AudioProcessor: the lazily loaded, cached    *)
(* table (property df), extract_audio_files and get_metadata, together     *)
(* with the part of the filesystem they read and write.                    *)
(*                                                                         *)
(* Python values are tagged records [t |-> type, v |-> payload]; None is   *)
(* [t |-> "null"].  A table is [columns |-> <<names>>, rows |-> <<rows>>], *)
(* a row maps every column name to a value.  A path below output_dir is    *)
(* [dir |-> directory name, name |-> file name].                           *)
(***************************************************************************)
EXTENDS Integers, Sequences, FiniteSets, TLC

VARIABLES
    disk,                \* what parquet_path points at (never written by the program)
    _df,                 \* AudioProcessor._df: None or the loaded table
    reads,               \* number of pl.read_parquet calls made so far
    dirs,                \* directories that exist below output_dir
    files,               \* files below output_dir: path -> content
    pc,                  \* "idle", or "rows" while extract_audio_files iterates
    columns_to_extract,  \* argument of the current/last extract_audio_files call
    limit,               \* argument of the current/last extract_audio_files call
    column_dirs,         \* local column_dirs: the extracted columns, in dict order
    df,                  \* local df of extract_audio_files (after head(limit))
    next_row,            \* position of the row iterator in df (0-based)
    audio_files,         \* local audio_files
    written,             \* writes of the current/last call: {[row, path]}
    skipped,             \* rows of the current/last call that took the else branch:
                         \* {[row, filename]}, filename as in the warning logged
    result,              \* outcome of the last finished operation
    previous             \* when the current/last extract_audio_files call repeats
                         \* the call that returned just before it with the same
                         \* arguments: the files and the list that call left

vars == <<disk, _df, reads, dirs, files, pc, columns_to_extract, limit,
          column_dirs, df, next_row, audio_files, written, skipped, result,
          previous>>

-----------------------------------------------------------------------------

(* Bounds *)

MaxRows == 2      \* rows of a table stored in one file
MaxLimit == 2     \* largest limit argument tried
MaxReads == 4     \* cap on the read counter

-----------------------------------------------------------------------------

(* Python values *)

None == [t |-> "null"]
PyStrV(s) == [t |-> "str", v |-> s]
PyInt(n) == [t |-> "int", v |-> n]
PyBytes(s) == [t |-> "bytes", v |-> s]
PyDict(d) == [t |-> "dict", v |-> d]
PyList(s) == [t |-> "list", v |-> s]

\* isinstance(x, dict) / isinstance(x, bytes)
IsDict(x) == x.t = "dict"
IsBytes(x) == x.t = "bytes"

\* str(x)
PyStr(x) ==
    CASE x.t = "str" -> x.v
      [] x.t = "int" -> ToString(x.v)
      [] x.t = "null" -> "None"
      [] x.t = "bytes" -> "b'" \o x.v \o "'"

\* the test of line 133 written as `if content is not None:`
IsNotNone(x) == x.t # "null"

\* bool(x), as used by `if content:`
Truthy(x) ==
    CASE x.t = "str" -> x.v # ""
      [] x.t = "int" -> x.v # 0
      [] x.t = "null" -> FALSE
      [] x.t = "bytes" -> x.v # ""
      [] x.t = "dict" -> DOMAIN x.v # {}

\* dict.get(key, default)
DictGet(d, key, default) == IF key \in DOMAIN d THEN d[key] ELSE default

\* str.startswith
StartsWith(s, prefix) ==
    Len(s) >= Len(prefix) /\ SubSeq(s, 1, Len(prefix)) = prefix

Range(s) == {s[k] : k \in 1..Len(s)}

-----------------------------------------------------------------------------

(* Tables the parquet files can hold.  A column has one dtype, so the      *)
(* values of the audio column of one table are all raw bytes (or null),    *)
(* all structs with the same fields, or all strings.                       *)

BinaryAudio == {PyBytes("xy"), None}
ValidStruct == PyDict([bytes |-> PyBytes("xyz"), path |-> PyStrV("p")])
StructAudio == {ValidStruct, PyDict([bytes |-> None, path |-> PyStrV("p")])}
StructNoBytes == {PyDict([path |-> PyStrV("p")])}
StringAudio == {PyStrV("s")}
TextVals == {PyStrV(""), PyStrV("hi")}
IdVals == {PyStrV("a"), PyStrV("b")}
IntIdVals == {PyInt(0), PyInt(7)}
FilenameVals == {PyStrV("f"), PyStrV("g")}

Schemas == {
    [columns |-> <<"audio", "text">>,
     rowset  |-> [audio : BinaryAudio, text : TextVals]],
    [columns |-> <<"id", "audio", "text">>,
     rowset  |-> [id : IdVals, audio : {ValidStruct}, text : TextVals]],
    [columns |-> <<"filename", "audio">>,
     rowset  |-> [filename : FilenameVals, audio : BinaryAudio]],
    [columns |-> <<"filename", "id", "audio">>,
     rowset  |-> [filename : {PyStrV("f")}, id : IntIdVals, audio : StructAudio]],
    [columns |-> <<"text">>,
     rowset  |-> [text : TextVals]],
    [columns |-> <<"audio", "__idx", "text">>,
     rowset  |-> [audio : StructNoBytes, __idx : {PyInt(0)}, text : TextVals]],
    [columns |-> <<"text", "audio">>,
     rowset  |-> [text : TextVals, audio : StringAudio]] }

TablesOf(schemas) ==
    UNION { { [columns |-> s.columns, rows |-> r] :
                r \in UNION { [1..n -> s.rowset] : n \in 0..MaxRows } } :
            s \in schemas }

Tables == TablesOf(Schemas)

\* the tables whose rows are named by the counter (no id, no filename column)
CounterNamedTables ==
    TablesOf({s \in Schemas : Range(s.columns) \cap {"id", "filename"} = {}})

-----------------------------------------------------------------------------

(* What parquet_path can point at.  The files of a directory are listed in *)
(* the order in which glob("*.parquet") enumerates them.                   *)

MaxFiles == 2     \* parquet files in a directory

Corrupt == [t |-> "corrupt"]

ChunkFiles == {
    [columns |-> <<"audio", "text">>,
     rows |-> <<[audio |-> PyBytes("xy"), text |-> PyStrV("hi")]>>],
    [columns |-> <<"audio", "text">>,
     rows |-> <<[audio |-> None, text |-> PyStrV("")]>>],
    [columns |-> <<"audio", "text">>,
     rows |-> <<[audio |-> None, text |-> PyStrV("hi")],
                [audio |-> PyBytes("xy"), text |-> PyStrV("")]>>],
    [columns |-> <<"text">>,
     rows |-> <<[text |-> PyStrV("hi")]>>],
    Corrupt }

DisksOver(tables) ==
    { [kind |-> "file", files |-> <<f>>] : f \in tables \cup {Corrupt} }
    \cup { [kind |-> "dir", files |-> fs] :
             fs \in UNION { [1..n -> ChunkFiles] : n \in 0..MaxFiles } }
    \cup { [kind |-> "missing", files |-> <<>>] }

Disks == DisksOver(Tables)

-----------------------------------------------------------------------------

(* Exceptions: [kind, msg, cause]; cause is None or another exception.     *)

Exc(kind, msg, cause) == [kind |-> kind, msg |-> msg, cause |-> cause]

NoResult == [op |-> "none", status |-> "none", value |-> None]
Returned(op, value) == [op |-> op, status |-> "returned", value |-> value]
Raised(op, err) == [op |-> op, status |-> "raised", value |-> err]

\* the arguments and locals of an extract_audio_files call, before it starts
\* and once another operation of the processor runs
ForgetCall ==
    /\ columns_to_extract' = None
    /\ limit' = None
    /\ column_dirs' = <<>>
    /\ df' = None
    /\ next_row' = 0
    /\ audio_files' = <<>>
    /\ written' = {}
    /\ skipped' = {}
    /\ previous' = None

-----------------------------------------------------------------------------

(* AudioProcessor.df *)

\* index of the first file pl.read_parquet fails on, 0 when all are readable
RECURSIVE FirstUnreadable(_, _)
FirstUnreadable(fs, k) ==
    IF k > Len(fs) THEN 0
    ELSE IF fs[k] = Corrupt THEN k
    ELSE FirstUnreadable(fs, k + 1)

\* a concatenation that puts each later frame in front of the earlier ones
RECURSIVE ConcatRowsReversed(_)
ConcatRowsReversed(dfs) ==
    IF dfs = <<>> THEN <<>>
    ELSE ConcatRowsReversed(Tail(dfs)) \o dfs[1].rows

\* pl.concat(dfs): the rows of each frame in list order
RECURSIVE ConcatRows(_)
ConcatRows(dfs) ==
    IF dfs = <<>> THEN <<>>
    ELSE dfs[1].rows \o ConcatRows(Tail(dfs))

\* pl.concat needs every frame to have the columns of the first
SameSchema(dfs) == \A k \in 1..Len(dfs) : dfs[k].columns = dfs[1].columns

PlConcat(dfs) == [columns |-> dfs[1].columns, rows |-> ConcatRows(dfs)]

\* a loader that falls back to the files read before the one that failed
LoadParquetPartial(d) ==
    IF d.kind = "file"
    THEN IF d.files[1] = Corrupt
         THEN [ok |-> FALSE, nread |-> 1,
               err |-> Exc("ValueError", "Failed to read parquet file(s)",
                           Exc("ReadError", "file 1", None))]
         ELSE [ok |-> TRUE, nread |-> 1, table |-> d.files[1]]
    ELSE IF d.files = <<>>
    THEN [ok |-> FALSE, nread |-> 0,
          err |-> Exc("ValueError", "Failed to read parquet file(s)",
                      Exc("ValueError", "No parquet files found", None))]
    ELSE LET bad == FirstUnreadable(d.files, 1) IN
         IF bad = 1
         THEN [ok |-> FALSE, nread |-> 1,
               err |-> Exc("ValueError", "Failed to read parquet file(s)",
                           Exc("ReadError", "file 1", None))]
         ELSE IF bad # 0
         THEN [ok |-> TRUE, nread |-> bad, table |-> d.files[1]]
         ELSE IF ~SameSchema(d.files)
         THEN [ok |-> FALSE, nread |-> Len(d.files),
               err |-> Exc("ValueError", "Failed to read parquet file(s)",
                           Exc("SchemaError", "concat", None))]
         ELSE [ok |-> TRUE, nread |-> Len(d.files), table |-> PlConcat(d.files)]

\* The body of `if self._df is None:`: what is read, and what is stored or raised.
LoadParquet(d) ==
    IF d.kind = "file"
    THEN IF d.files[1] = Corrupt
         THEN [ok |-> FALSE, nread |-> 1,
               err |-> Exc("ValueError", "Failed to read parquet file(s)",
                           Exc("ReadError", "file 1", None))]
         ELSE [ok |-> TRUE, nread |-> 1, table |-> d.files[1]]
    ELSE IF d.files = <<>>
    THEN [ok |-> FALSE, nread |-> 0,
          err |-> Exc("ValueError", "Failed to read parquet file(s)",
                      Exc("ValueError", "No parquet files found", None))]
    ELSE LET bad == FirstUnreadable(d.files, 1) IN
         IF bad # 0
         THEN [ok |-> FALSE, nread |-> bad,
               err |-> Exc("ValueError", "Failed to read parquet file(s)",
                           Exc("ReadError", "file " \o ToString(bad), None))]
         ELSE IF ~SameSchema(d.files)
         THEN [ok |-> FALSE, nread |-> Len(d.files),
               err |-> Exc("ValueError", "Failed to read parquet file(s)",
                           Exc("SchemaError", "concat", None))]
         ELSE [ok |-> TRUE, nread |-> Len(d.files), table |-> PlConcat(d.files)]

\* the property without the test of line 34
AlwaysLoad(cached, d) == LoadParquet(d)

\* The property df: load only when nothing is cached.
DfProperty(cached, d) ==
    IF cached = None
    THEN LoadParquet(d)
    ELSE [ok |-> TRUE, nread |-> 0, table |-> cached]

\* A caller reads processor.df directly.
AccessDf ==
    /\ pc = "idle"
    /\ LET ld == DfProperty(_df, disk) IN
       /\ reads + ld.nread <= MaxReads
       /\ reads' = reads + ld.nread
       /\ IF ld.ok
          THEN /\ _df' = ld.table
               /\ result' = Returned("df", ld.table)
          ELSE /\ _df' = _df
               /\ result' = Raised("df", ld.err)
    /\ ForgetCall
    /\ UNCHANGED <<disk, dirs, files, pc>>

-----------------------------------------------------------------------------

(* AudioProcessor.extract_audio_files *)

\* arguments tried for columns_to_extract and limit
ColumnArgs == {None, PyList(<<"text">>), PyList(<<"text", "speaker">>)}
LimitArgs == {None} \cup {PyInt(n) : n \in 0..MaxLimit}

\* the orders in which a Python set can be iterated
Orderings(S) == {s \in [1..Cardinality(S) -> S] : Range(s) = S}

\* the comprehension of line 87 without its test of the reserved prefix
DefaultColumnsWithReserved(available) ==
    {col \in available : col # "audio"}

\* [col for col in available_columns if col != "audio" and not col.startswith("__")]
DefaultColumns(available) ==
    {col \in available : col # "audio" /\ ~StartsWith(col, "__")}

\* the set difference of line 91 with its operands exchanged
UnrequestedColumns(cols, available) == available \ Range(cols)

\* set(columns_to_extract) - available_columns
InvalidColumns(cols, available) == Range(cols) \ available

\* head with the count taken one too large
DfHeadOneMore(table, n) ==
    [columns |-> table.columns,
     rows |-> SubSeq(table.rows, 1,
                     IF n + 1 < Len(table.rows) THEN n + 1 ELSE Len(table.rows))]

\* df.head(limit), limit >= 0
DfHead(table, n) ==
    [columns |-> table.columns,
     rows |-> SubSeq(table.rows, 1, IF n < Len(table.rows) THEN n ELSE Len(table.rows))]

\* the wrapper of the outer except clause
ExtractError(cause) == Exc("ValueError", "Failed to extract files", cause)

AudioPath(filename) == [dir |-> "wavs", name |-> filename \o ".wav"]
TextPath(col, filename) == [dir |-> col, name |-> filename \o ".txt"]

\* lines 116-120: the value tested by isinstance(audio_bytes, bytes)
AudioBytes(row) ==
    LET audio_data == DictGet(row, "audio", PyDict(<<>>)) IN
    IF IsDict(audio_data)
    THEN DictGet(audio_data.v, "bytes", PyBytes(""))
    ELSE audio_data

\* the lookups of line 122 nested the other way round
FilenameBeforeId(row, nwritten) ==
    PyStr(DictGet(row, "filename", DictGet(row, "id", PyInt(nwritten))))

\* the fallback of line 122 counting from one
FilenameFromOne(row, nwritten) ==
    PyStr(DictGet(row, "id", DictGet(row, "filename", PyInt(nwritten + 1))))

\* line 122: str(row.get("id", row.get("filename", len(audio_files))))
Filename(row, nwritten) ==
    PyStr(DictGet(row, "id", DictGet(row, "filename", PyInt(nwritten))))

\* lines 131-137: the text files of one row, in column_dirs order
RECURSIVE TextWrites(_, _, _)
TextWrites(row, filename, cols) ==
    IF cols = <<>> THEN <<>>
    ELSE LET content == DictGet(row, cols[1], PyStrV("")) IN
         (IF Truthy(content)
          THEN <<[path |-> TextPath(cols[1], filename),
                  content |-> PyStrV(PyStr(content))]>>
          ELSE <<>>)
         \o TextWrites(row, filename, Tail(cols))

\* the text loop of lines 131-137 moved out of the isinstance branch
RowWritesTextAlways(row, nwritten, cols) ==
    LET filename == Filename(row, nwritten) IN
    (IF IsBytes(AudioBytes(row))
     THEN <<[path |-> AudioPath(filename), content |-> AudioBytes(row)]>>
     ELSE <<>>)
    \o TextWrites(row, filename, cols)

\* every open(...)/write(...) the loop body performs for a row, in order
RowWrites(row, nwritten, cols) ==
    LET filename == Filename(row, nwritten) IN
    IF IsBytes(AudioBytes(row))
    THEN <<[path |-> AudioPath(filename), content |-> AudioBytes(row)]>>
         \o TextWrites(row, filename, cols)
    ELSE <<>>

\* the files opened in append mode ("ab", "a") instead of "wb", "w"
WriteFilesAppend(fs, ws, k) ==
    [p \in DOMAIN fs \cup {ws[j].path : j \in 1..k} |->
        IF \E j \in 1..k : ws[j].path = p
        THEN LET last == CHOOSE j \in 1..k :
                           /\ ws[j].path = p
                           /\ \A m \in 1..k : ws[m].path = p => m <= j
             IN IF p \in DOMAIN fs
                THEN [t |-> fs[p].t, v |-> fs[p].v \o ws[last].content.v]
                ELSE ws[last].content
        ELSE fs[p]]

\* the filesystem after the first k writes of ws
WriteFiles(fs, ws, k) ==
    [p \in DOMAIN fs \cup {ws[j].path : j \in 1..k} |->
        IF \E j \in 1..k : ws[j].path = p
        THEN LET last == CHOOSE j \in 1..k :
                           /\ ws[j].path = p
                           /\ \A m \in 1..k : ws[m].path = p => m <= j
             IN ws[last].content
        ELSE fs[p]]

\* Lines 77-112: everything before the row loop.  mkfail = 0: every mkdir
\* succeeds; mkfail = 1: mkdir of wavs raises; mkfail = j + 1: mkdir of the
\* j-th extracted column raises.
ExtractBegin(cols, lim, mkfail) ==
    /\ pc = "idle"
    /\ columns_to_extract' = cols
    /\ limit' = lim
    /\ written' = {}
    /\ skipped' = {}
    /\ audio_files' = <<>>
    /\ next_row' = 0
    /\ previous' = (IF /\ result.op = "extract" /\ result.status = "returned"
                       /\ cols = columns_to_extract /\ lim = limit
                    THEN [files |-> files, value |-> result.value]
                    ELSE None)
    /\ UNCHANGED <<disk, files>>
    /\ IF mkfail = 1
       THEN /\ result' = Raised("extract", ExtractError(Exc("OSError", "mkdir wavs", None)))
            /\ column_dirs' = <<>>
            /\ df' = None
            /\ UNCHANGED <<_df, reads, dirs, pc>>
       ELSE LET ld == DfProperty(_df, disk) IN
            /\ reads + ld.nread <= MaxReads
            /\ reads' = reads + ld.nread
            /\ IF ~ld.ok
               THEN /\ result' = Raised("extract", ExtractError(ld.err))
                    /\ dirs' = dirs \cup {"wavs"}
                    /\ column_dirs' = <<>>
                    /\ df' = None
                    /\ UNCHANGED <<_df, pc>>
               ELSE LET available == Range(ld.table.columns) IN
                    /\ _df' = ld.table
                    /\ IF cols # None /\ InvalidColumns(cols.v, available) # {}
                       THEN /\ result' = Raised("extract", ExtractError(
                                   [kind |-> "ValueError",
                                    msg |-> "Column(s) not found in dataset",
                                    names |-> InvalidColumns(cols.v, available),
                                    cause |-> None]))
                            /\ dirs' = dirs \cup {"wavs"}
                            /\ column_dirs' = <<>>
                            /\ df' = None
                            /\ mkfail = 0
                            /\ UNCHANGED pc
                       ELSE \E list \in (IF cols = None
                                         THEN Orderings(DefaultColumns(available))
                                         ELSE {cols.v}) :
                            /\ mkfail <= Len(list) + 1
                            /\ IF mkfail = 0
                               THEN /\ dirs' = dirs \cup {"wavs"} \cup Range(list)
                                    /\ column_dirs' = list
                                    /\ df' = (IF lim = None THEN ld.table
                                              ELSE DfHead(ld.table, lim.v))
                                    /\ pc' = "rows"
                                    /\ UNCHANGED result
                               ELSE /\ dirs' = dirs \cup {"wavs"}
                                              \cup {list[j] : j \in 1..(mkfail - 2)}
                                    /\ column_dirs' = SubSeq(list, 1, mkfail - 2)
                                    /\ df' = None
                                    /\ result' = Raised("extract", ExtractError(
                                           Exc("OSError", "mkdir " \o list[mkfail - 1], None)))
                                    /\ UNCHANGED pc

\* the append of line 128 moved behind the text files, taking the last path written
AppendLastPath(lst, ws, done) ==
    IF done >= 1 THEN Append(lst, ws[done].path) ELSE lst

\* line 128: audio_files.append(audio_path), reached when the audio write succeeded
AppendAudioPath(lst, ws, done) ==
    IF done >= 1 THEN Append(lst, ws[1].path) ELSE lst

\* a try/except around the loop body that logs the failure and goes on
NeverAborts(ws, done) == FALSE

\* an open() that raised leaves the loop through the outer except clause
Aborts(ws, done) == done < Len(ws)

\* Lines 115-139: one iteration of the row loop.  fault = 0: every write of
\* the row succeeds; fault = k: the k-th open() of the row raises and the
\* outer except clause ends the call.
ExtractRow(fault) ==
    /\ pc = "rows"
    /\ next_row < Len(df.rows)
    /\ LET row == df.rows[next_row + 1]
           ws == RowWrites(row, Len(audio_files), column_dirs)
           done == IF fault = 0 THEN Len(ws) ELSE fault - 1
       IN
       /\ fault <= Len(ws)
       /\ files' = WriteFiles(files, ws, done)
       /\ written' = written \cup {[row |-> next_row, path |-> ws[j].path] : j \in 1..done}
       /\ audio_files' = AppendAudioPath(audio_files, ws, done)
       /\ skipped' = (IF IsBytes(AudioBytes(row)) THEN skipped
                      ELSE skipped \cup {[row |-> next_row,
                                          filename |-> Filename(row, Len(audio_files))]})
       /\ IF ~Aborts(ws, done)
          THEN /\ next_row' = next_row + 1
               /\ UNCHANGED <<pc, result>>
          ELSE /\ pc' = "idle"
               /\ result' = Raised("extract", ExtractError(
                      Exc("OSError", "open " \o ws[done + 1].path.dir
                                      \o "/" \o ws[done + 1].path.name, None)))
               /\ UNCHANGED next_row
    /\ UNCHANGED <<disk, _df, reads, dirs, columns_to_extract, limit, column_dirs, df,
                   previous>>

\* Lines 141-145: the iterator is exhausted, the list is returned.
ExtractReturn ==
    /\ pc = "rows"
    /\ next_row = Len(df.rows)
    /\ pc' = "idle"
    /\ result' = Returned("extract", audio_files)
    /\ UNCHANGED <<disk, _df, reads, dirs, files, columns_to_extract, limit,
                   column_dirs, df, next_row, audio_files, written, skipped,
                   previous>>

-----------------------------------------------------------------------------

(* AudioProcessor.get_metadata *)

SampleRows == 5

\* len(row[1]) for the rows of a table given as tuples (df.iter_rows())
HasSecond(table) == Len(table.columns) >= 2
Second(table, k) == table.rows[k][table.columns[2]]
HasLen(x) == x.t \in {"str", "bytes", "dict"}
PyLen(x) == IF x.t = "dict" THEN Cardinality(DOMAIN x.v) ELSE Len(x.v)

RECURSIVE SumLens(_, _)
SumLens(table, k) ==
    IF k > Len(table.rows) THEN 0
    ELSE PyLen(Second(table, k)) + SumLens(table, k + 1)

MetadataError(cause) == Exc("ValueError", "Failed to get metadata", cause)

Metadata(table) ==
    IF table.rows # <<>> /\ ~HasSecond(table)
    THEN Raised("get_metadata", MetadataError(Exc("IndexError", "row[1]", None)))
    ELSE IF \E k \in 1..Len(table.rows) : ~HasLen(Second(table, k))
    THEN Raised("get_metadata", MetadataError(Exc("TypeError", "len()", None)))
    ELSE Returned("get_metadata",
                  [total_files |-> Len(table.rows),
                   total_size |-> SumLens(table, 1),
                   file_size_mb |-> [num |-> SumLens(table, 1), den |-> 1024 * 1024],
                   columns |-> table.columns,
                   sample |-> DfHead(table, SampleRows)])

GetMetadata ==
    /\ pc = "idle"
    /\ LET ld == DfProperty(_df, disk) IN
       /\ reads + ld.nread <= MaxReads
       /\ reads' = reads + ld.nread
       /\ IF ld.ok
          THEN /\ _df' = ld.table
               /\ result' = Metadata(ld.table)
          ELSE /\ _df' = _df
               /\ result' = Raised("get_metadata", MetadataError(ld.err))
    /\ ForgetCall
    /\ UNCHANGED <<disk, dirs, files, pc>>

-----------------------------------------------------------------------------

(* The processor after AudioProcessor(parquet_path), with output_dir absent *)

MaxWrites == 3    \* writes one row can need: audio and two text columns

InitOver(disks) ==
    /\ disk \in disks
    /\ _df = None
    /\ reads = 0
    /\ dirs = {}
    /\ files = <<>>
    /\ pc = "idle"
    /\ columns_to_extract = None
    /\ limit = None
    /\ column_dirs = <<>>
    /\ df = None
    /\ next_row = 0
    /\ audio_files = <<>>
    /\ written = {}
    /\ skipped = {}
    /\ result = NoResult
    /\ previous = None

Init == InitOver(Disks)

\* The processor in an environment where mkdir and open never fail.
Next ==
    \/ AccessDf
    \/ \E cols \in ColumnArgs, lim \in LimitArgs : ExtractBegin(cols, lim, 0)
    \/ ExtractRow(0)
    \/ ExtractReturn
    \/ GetMetadata

Spec == Init /\ [][Next]_vars

\* The same processor when any mkdir and any open may raise OSError, over
\* the tables without identifier columns.
InitFaults == InitOver(DisksOver(CounterNamedTables))

NextFaults ==
    \/ Next
    \/ \E cols \in ColumnArgs, lim \in LimitArgs, mkfail \in 1..MaxWrites :
           ExtractBegin(cols, lim, mkfail)
    \/ \E fault \in 1..MaxWrites : ExtractRow(fault)

SpecFaults == InitFaults /\ [][NextFaults]_vars

-----------------------------------------------------------------------------

(* Vocabulary of the properties *)

EndsWith(s, suffix) ==
    Len(s) >= Len(suffix) /\ SubSeq(s, Len(s) - Len(suffix) + 1, Len(s)) = suffix

\* the file name without its four-character extension (.wav, .txt)
Stem(name) == SubSeq(name, 1, Len(name) - 4)

IsWav(path) == path.dir = "wavs" /\ EndsWith(path.name, ".wav")
IsTxt(path) == EndsWith(path.name, ".txt")

\* the audio writes and the text writes of the call
WavEntries == {e \in written : IsWav(e.path)}
TxtEntries == {e \in written : IsTxt(e.path)}

\* rows of the call whose audio was written before row r
WrittenBefore(r) == Cardinality({e.row : e \in {w \in WavEntries : w.row < r}})

\* a call of extract_audio_files has got past its setup and is not forgotten
InCall == df # None

\* the call has just returned its list
JustReturned ==
    InCall /\ pc = "idle" /\ result.op = "extract" /\ result.status = "returned"

\* the identifier by priority: id, else filename, else the given number
Identifier(row, number) ==
    IF "id" \in DOMAIN row THEN PyStr(row["id"])
    ELSE IF "filename" \in DOMAIN row THEN PyStr(row["filename"])
    ELSE ToString(number)

\* base names the call has used: of written audio files and of skipped rows
UsedNames ==
    {[row |-> e.row, filename |-> Stem(e.path.name)] : e \in WavEntries}
    \cup skipped

-----------------------------------------------------------------------------

(* C1: the base filename of every processed row is its id as text, else    *)
(* its filename as text, else the row's zero-based index in the table,     *)
(* whatever happened to the rows before it.                                *)
C1_NameIsIdFilenameOrRowIndex ==
    \A u \in UsedNames : u.filename = Identifier(df.rows[u.row + 1], u.row)

(* C1 as amended: the base filename of every processed row is its id as    *)
(* text, else its filename as text, else the number of audio files the     *)
(* call has written before that row (the row's index only when no earlier  *)
(* row was skipped).                                                       *)
C1_NameIsIdFilenameOrWrittenCount ==
    \A u \in UsedNames :
        u.filename = Identifier(df.rows[u.row + 1], WrittenBefore(u.row))

\* a row without id and filename was written after an earlier row was skipped
C1_Witness ==
    /\ InCall
    /\ Range(df.columns) \cap {"id", "filename"} = {}
    /\ \E e \in WavEntries : \E k \in skipped : k.row < e.row

-----------------------------------------------------------------------------

\* raw bytes, or a compound value that has a `bytes` sub-field
RecognisedAudio(row) ==
    /\ "audio" \in DOMAIN row
    /\ \/ row["audio"].t = "bytes"
       \/ row["audio"].t = "dict" /\ "bytes" \in DOMAIN row["audio"].v

(* C2: a row whose audio value is neither raw bytes nor a compound value   *)
(* with a `bytes` sub-field (a compound value without `bytes`, a missing   *)
(* audio column, a non-bytes scalar) is skipped: nothing is written for    *)
(* it, its path is not in the list, and the rows after it are processed.   *)
C2_UnrecognisedAudioIsSkipped ==
    InCall =>
        \A r \in 0..(next_row - 1) :
            ~RecognisedAudio(df.rows[r + 1]) =>
                /\ \A e \in written : e.row # r
                /\ \E k \in skipped : k.row = r
                /\ Len(audio_files) = Cardinality({e.row : e \in WavEntries})

-----------------------------------------------------------------------------

MissingColumns(cols, table) ==
    {cols[k] : k \in {j \in 1..Len(cols) :
                        \A m \in 1..Len(table.columns) : table.columns[m] # cols[j]}}

\* an extract call with an explicit list that names a missing column has started
AsksForMissingColumn ==
    /\ columns_to_extract # None
    /\ _df # None
    /\ MissingColumns(columns_to_extract.v, _df) # {}

(* C3: when columns_to_extract names a column that is not in the table,    *)
(* the call fails with an error that enumerates the missing names, and no  *)
(* audio file and no text file has been written.                           *)
C3_MissingColumnFailsBeforeAnyWrite ==
    AsksForMissingColumn =>
        /\ pc = "idle"
        /\ result.op = "extract"
        /\ result.status = "raised"
        /\ result.value.cause.kind = "ValueError"
        /\ "names" \in DOMAIN result.value.cause
        /\ result.value.cause.names = MissingColumns(columns_to_extract.v, _df)
        /\ written = {}
        /\ audio_files = <<>>

\* the failing call ran against an output directory that already held files
C3_Witness ==
    /\ AsksForMissingColumn
    /\ result.status = "raised"
    /\ DOMAIN files # {}

-----------------------------------------------------------------------------

(* C4: on success the call returns exactly the paths wavs/{identifier}.wav *)
(* of the rows whose audio was written, one entry per such row, in table   *)
(* order; no text file path is in the list.                                *)
C4_ReturnsWrittenAudioPathsInOrder ==
    JustReturned =>
        LET lst == result.value IN
        /\ Len(lst) = Cardinality({e.row : e \in WavEntries})
        /\ \A k \in 1..Len(lst) :
              /\ \E e \in WavEntries :
                    /\ WrittenBefore(e.row) = k - 1
                    /\ lst[k] = e.path
                    /\ lst[k] = [dir |-> "wavs",
                                 name |-> Identifier(df.rows[e.row + 1], k - 1) \o ".wav"]
              /\ lst[k] \in DOMAIN files
              /\ \A t \in TxtEntries : t.path # lst[k]

\* a call returned two paths and had also written text files
C4_Witness ==
    /\ JustReturned
    /\ Len(result.value) = 2
    /\ TxtEntries # {}

-----------------------------------------------------------------------------

RowsToProcess ==
    IF limit = None \/ limit.v > Len(_df.rows) THEN Len(_df.rows) ELSE limit.v

(* C5: with limit = N >= 0 only the first N rows, in table order, are      *)
(* processed (all rows when N exceeds the row count or no limit is given), *)
(* at most min(N, row_count) paths are returned, and no later row ever     *)
(* produces a file.                                                        *)
C5_LimitTruncatesToFirstRows ==
    InCall =>
        /\ Len(df.rows) = RowsToProcess
        /\ \A k \in 1..RowsToProcess : df.rows[k] = _df.rows[k]
        /\ \A e \in written : e.row < RowsToProcess
        /\ \A k \in skipped : k.row < RowsToProcess
        /\ Len(audio_files) <= RowsToProcess
        /\ JustReturned =>
              /\ Len(result.value) <= RowsToProcess
              /\ {e.row : e \in WavEntries} \cup {k.row : k \in skipped}
                     = 0..(RowsToProcess - 1)

\* a table of two valid rows was extracted with limit 1
C5_Witness ==
    /\ JustReturned
    /\ limit = PyInt(1)
    /\ Len(_df.rows) = 2
    /\ Len(result.value) = 1
    /\ IsBytes(AudioBytes(_df.rows[2]))

-----------------------------------------------------------------------------

\* the row whose data the file at path holds: the last row that wrote it
LastWriter(path) ==
    CHOOSE r \in {e.row : e \in {w \in written : w.path = path}} :
        \A e \in written : e.path = path => e.row <= r

\* the call has returned and every file of the output directory is its own
ReturnedIntoEmptyDir ==
    JustReturned /\ DOMAIN files = {e.path : e \in written}

WavOf(txt) == [dir |-> "wavs", name |-> Stem(txt.name) \o ".wav"]

(* C6: after an extraction into an initially empty output directory, for   *)
(* every {column}/{x}.txt that exists, wavs/{x}.wav exists and both hold   *)
(* data of the same row, also when two rows resolve to the same identifier.*)
C6_TextAndAudioOfSameRow ==
    ReturnedIntoEmptyDir =>
        \A p \in DOMAIN files :
            IsTxt(p) =>
                /\ WavOf(p) \in DOMAIN files
                /\ LastWriter(p) = LastWriter(WavOf(p))

(* C6 as amended: the audio file and every text file written for one row   *)
(* carry the same identifier; after an extraction into an initially empty  *)
(* output directory, for every {column}/{x}.txt that exists, wavs/{x}.wav  *)
(* exists, and both hold data of the same row when only one written row    *)
(* resolves to x (with several such rows the audio is of the last of them, *)
(* the text of the last of them whose value was non-empty).                *)
C6_TextAndAudioShareIdentifier ==
    /\ \A e \in written : \A w \in WavEntries :
          e.row = w.row => Stem(e.path.name) = Stem(w.path.name)
    /\ ReturnedIntoEmptyDir =>
          \A p \in DOMAIN files :
              IsTxt(p) =>
                  /\ WavOf(p) \in DOMAIN files
                  /\ \E w \in WavEntries : w.path = WavOf(p) /\ w.row = LastWriter(p)
                  /\ LastWriter(p) <= LastWriter(WavOf(p))
                  /\ Cardinality({w.row : w \in {x \in WavEntries : x.path = WavOf(p)}}) = 1
                        => LastWriter(p) = LastWriter(WavOf(p))

\* two written rows share an identifier and a text file of that name exists
C6_Witness ==
    /\ ReturnedIntoEmptyDir
    /\ \E p \in DOMAIN files :
          /\ IsTxt(p)
          /\ Cardinality({w.row : w \in {x \in WavEntries : x.path = WavOf(p)}}) = 2

-----------------------------------------------------------------------------

EmptyValues == {None, PyStrV(""), PyInt(0), PyBytes("")}

(* C7: a row whose audio is written writes {column}/{identifier}.txt for   *)
(* an extracted column if and only if its value for the column is          *)
(* non-empty; an empty or falsy value writes no text file.                 *)
C7_TextFileIffValueNonEmpty ==
    \A w \in WavEntries : \A k \in 1..Len(column_dirs) :
        LET col == column_dirs[k]
            row == df.rows[w.row + 1]
            target == [dir |-> col, name |-> Stem(w.path.name) \o ".txt"]
        IN  (\E e \in written : e.row = w.row /\ e.path = target)
                <=> (col \in DOMAIN row /\ row[col] \notin EmptyValues)

\* one written row has an empty value, another row's text file was written
C7_Witness ==
    /\ JustReturned
    /\ TxtEntries # {}
    /\ \E w \in WavEntries : \E k \in 1..Len(column_dirs) :
          /\ column_dirs[k] \in DOMAIN df.rows[w.row + 1]
          /\ df.rows[w.row + 1][column_dirs[k]] \in EmptyValues

-----------------------------------------------------------------------------

\* the row's audio is raw bytes or a compound value whose `bytes` field holds bytes
HasBytesPayload(row) ==
    /\ "audio" \in DOMAIN row
    /\ \/ row["audio"].t = "bytes"
       \/ /\ row["audio"].t = "dict"
          /\ "bytes" \in DOMAIN row["audio"].v
          /\ row["audio"].v["bytes"].t = "bytes"

PayloadLen(row) ==
    IF row["audio"].t = "bytes" THEN Len(row["audio"].v)
    ELSE Len(row["audio"].v["bytes"].v)

RECURSIVE SumPayloads(_)
SumPayloads(rows) ==
    IF rows = <<>> THEN 0 ELSE PayloadLen(rows[1]) + SumPayloads(Tail(rows))

(* C8: get_metadata reports as total size the sum over all rows of the     *)
(* byte length of the row's audio payload (file_size_mb is that sum        *)
(* divided by 1024*1024), wherever the audio column stands among the       *)
(* columns and whether the audio is raw bytes or a compound value with a   *)
(* `bytes` field.                                                          *)
C8_TotalSizeIsSumOfAudioBytes ==
    ( /\ pc = "idle"
      /\ result.op = "get_metadata"
      /\ _df # None
      /\ \A k \in 1..Len(_df.rows) : HasBytesPayload(_df.rows[k]) )
    => /\ result.status = "returned"
       /\ result.value.total_size = SumPayloads(_df.rows)
       /\ result.value.file_size_mb =
              [num |-> SumPayloads(_df.rows), den |-> 1048576]

-----------------------------------------------------------------------------

(* C9: across any sequence of df accesses, extract_audio_files calls and   *)
(* get_metadata calls, once a load has succeeded the stored table is       *)
(* returned unchanged by every later access and no file is read again; an  *)
(* operation that needs the table only succeeds with the table stored.     *)
C9_LoadedTableIsReused ==
    [][ /\ _df # None => (_df' = _df /\ reads' = reads)
        /\ (_df = None /\ _df' # None) => reads' > reads
        /\ (result' # result /\ result'.status = "returned") => _df' # None
        /\ (result' # result /\ result'.op = "df" /\ result'.status = "returned")
              => result'.value = _df' ]_vars

\* the table was read by a df access and an extraction then used it
C9_Witness ==
    /\ pc = "rows"
    /\ result.op = "df"
    /\ result.status = "returned"
    /\ _df # None
    /\ reads >= 1

-----------------------------------------------------------------------------

\* row r of the call was left behind by the iterator in one of the two
\* regular ways: skipped for its audio, or written with all its text files
PassedRegularly(r) ==
    LET row == df.rows[r + 1] IN
    \/ /\ \E k \in skipped : k.row = r
       /\ ~HasBytesPayload(row)
       /\ \A e \in written : e.row # r
    \/ /\ \A k \in skipped : k.row # r
       /\ \E w \in WavEntries :
             /\ w.row = r
             /\ \A j \in 1..Len(column_dirs) :
                   (column_dirs[j] \in DOMAIN row
                      /\ row[column_dirs[j]] \notin EmptyValues)
                   => \E e \in written :
                         /\ e.row = r
                         /\ e.path = [dir |-> column_dirs[j],
                                      name |-> Stem(w.path.name) \o ".txt"]

ExtractRaised ==
    pc = "idle" /\ result.op = "extract" /\ result.status = "raised"

(* C10: an invalid audio shape is the only condition recovered per row;    *)
(* any other failure (table load, unknown column, directory creation, a    *)
(* file write failing on row k) aborts the whole call at once: no row      *)
(* after the failure point is processed, no list is returned, and one      *)
(* wrapped error carrying the original cause is raised.                    *)
C10_OnlyAudioShapeIsRecovered ==
    /\ InCall => \A r \in 0..(next_row - 1) : PassedRegularly(r)
    /\ ExtractRaised =>
          /\ result.value.kind = "ValueError"
          /\ result.value.msg = "Failed to extract files"
          /\ result.value.cause # None
          /\ result.value.cause.kind \in {"OSError", "ValueError"}
          /\ result.value.cause.kind = "ValueError" =>
                /\ ~InCall
                /\ "names" \in DOMAIN result.value.cause
                      \/ result.value.cause.cause # None
          /\ InCall =>
                /\ next_row < Len(df.rows)
                /\ \A e \in written : e.row <= next_row
                /\ \A k \in skipped : k.row < next_row
                /\ Len(audio_files) = Cardinality({w.row : w \in WavEntries})
          /\ ~InCall => written = {} /\ skipped = {} /\ audio_files = <<>>

\* after a skipped row, a later row's audio was written and its text file failed
C10_Witness ==
    /\ ExtractRaised
    /\ InCall
    /\ result.value.cause.kind = "OSError"
    /\ \E k \in skipped : k.row < next_row
    /\ \E w \in WavEntries : w.row = next_row
    /\ \A e \in TxtEntries : e.row # next_row

-----------------------------------------------------------------------------

\* parquet_path can be loaded: a readable file, or a directory with at least
\* one data file, all of them readable and with the same columns
Loadable(d) ==
    /\ d.files # <<>>
    /\ \A k \in 1..Len(d.files) :
          /\ d.files[k] # Corrupt
          /\ d.files[1] # Corrupt => d.files[k].columns = d.files[1].columns

\* the files a load attempt reads before it gives up
RECURSIVE ReadableRun(_)
ReadableRun(fs) ==
    IF fs = <<>> THEN 0
    ELSE IF fs[1] = Corrupt THEN 1
    ELSE 1 + ReadableRun(Tail(fs))

LoadErrorCauses == {"ReadError", "ValueError", "SchemaError"}

(* C11: when loading fails (no data file, unreadable path, corrupt file,   *)
(* also a later file of a directory after earlier ones were read) the df   *)
(* access raises one load error wrapping the underlying cause, stores no   *)
(* table - no partial or fallback table is exposed - and every later       *)
(* access attempts the load again.                                         *)
C11_FailedLoadStoresNothing ==
    [][ ~Loadable(disk) =>
          /\ _df = None /\ _df' = None
          /\ df' = None
          /\ reads' = reads + ReadableRun(disk.files)
          /\ result'.status = "raised"
          /\ result'.op = "df" =>
                /\ result'.value.kind = "ValueError"
                /\ result'.value.msg = "Failed to read parquet file(s)"
                /\ result'.value.cause # None
                /\ result'.value.cause.kind \in LoadErrorCauses
                /\ result'.value.cause.cause = None
          /\ result'.op # "df" => result'.value.cause.cause # None ]_vars

\* the second file of a directory is corrupt and the load was attempted twice
C11_Witness ==
    /\ disk.kind = "dir"
    /\ Len(disk.files) = 2
    /\ disk.files[1] # Corrupt
    /\ disk.files[2] = Corrupt
    /\ reads = 4
    /\ result.op = "df"
    /\ result.status = "raised"
    /\ _df = None

-----------------------------------------------------------------------------

\* the call repeats its predecessor: same table, arguments and output directory
IsRerun == previous # None

(* C12: extraction is idempotent on rerun: a second call with the same     *)
(* table, arguments and output directory, made right after the first       *)
(* returned, leaves the same files with the same contents and returns the  *)
(* same list; it overwrites same-named files and fails on none.            *)
C12_RerunLeavesSameFilesAndList ==
    IsRerun =>
        /\ pc = "idle" => /\ result.op = "extract"
                          /\ result.status = "returned"
                          /\ result.value = previous.value
                          /\ files = previous.files
        /\ DOMAIN files = DOMAIN previous.files
        /\ \A e \in written : e.path \in DOMAIN previous.files

\* a rerun came back after overwriting an audio file and a text file
C12_Witness ==
    /\ IsRerun
    /\ JustReturned
    /\ WavEntries # {}
    /\ TxtEntries # {}

-----------------------------------------------------------------------------

\* number of rows in the files before the k-th file of the directory
RECURSIVE RowsBefore(_, _)
RowsBefore(fs, k) ==
    IF k <= 1 THEN 0 ELSE RowsBefore(fs, k - 1) + Len(fs[k - 1].rows)

(* C13: loading a directory of several same-schema data files yields one   *)
(* table in which each file's rows keep their order and the files' blocks  *)
(* follow each other in file (enumeration) order, with no row lost,        *)
(* duplicated or interleaved.                                              *)
C13_DirectoryRowsInFileOrder ==
    (disk.kind = "dir" /\ _df # None) =>
        /\ Len(_df.rows) = RowsBefore(disk.files, Len(disk.files) + 1)
        /\ \A k \in 1..Len(disk.files) :
              /\ _df.columns = disk.files[k].columns
              /\ \A j \in 1..Len(disk.files[k].rows) :
                    _df.rows[RowsBefore(disk.files, k) + j] = disk.files[k].rows[j]

\* two different files were loaded, the first with two rows
C13_Witness ==
    /\ disk.kind = "dir"
    /\ _df # None
    /\ Len(disk.files) = 2
    /\ Len(disk.files[1].rows) = 2
    /\ disk.files[2] # disk.files[1]

-----------------------------------------------------------------------------

\* a column name that carries the reserved prefix
IsReserved(col) == Len(col) >= 2 /\ SubSeq(col, 1, 2) = "__"

\* the columns the arguments ask for: the explicit list, else every column
\* of the table but `audio` and the reserved ones
ExtractedColumns(cols, table) ==
    IF cols # None THEN Range(cols.v)
    ELSE {c \in Range(table.columns) : c # "audio" /\ ~IsReserved(c)}

\* the directories a call with these arguments has to provide
ExpectedDirs(cols, table) == {"wavs"} \cup ExtractedColumns(cols, table)

-----------------------------------------------------------------------------

(* C15: when the table has neither an `id` nor a `filename` column, the    *)
(* audio files written so far in the call are named 0.wav, 1.wav, ...,     *)
(* (k-1).wav in the order of the list (k its length), each of them was     *)
(* written by exactly one row, and the list holds exactly the audio files  *)
(* the call has written, also when rows in between were skipped.           *)
C15_FallbackNamesCountWrittenFiles ==
    (InCall /\ Range(df.columns) \cap {"id", "filename"} = {}) =>
        /\ \A k \in 1..Len(audio_files) :
              audio_files[k] = [dir |-> "wavs", name |-> ToString(k - 1) \o ".wav"]
        /\ \A e1, e2 \in WavEntries : e1.path = e2.path => e1.row = e2.row
        /\ {e.path : e \in WavEntries} = Range(audio_files)
        /\ Cardinality({e.row : e \in WavEntries}) = Len(audio_files)

\* two rows were written with a skipped row between them
C15_Witness ==
    /\ JustReturned
    /\ Range(df.columns) \cap {"id", "filename"} = {}
    /\ Len(audio_files) = 2
    /\ \E k \in skipped : \E e1, e2 \in WavEntries : e1.row < k.row /\ k.row < e2.row

====
